---- MODULE Spec2Model ----
(***************************************************************************)
(* Variational joint filtering (vjf): the orchestrator of online.py (VJF:  *)
(* feed, filter, fit, forecast), the orchestrator of model.py (VJF:        *)
(* filter, fit, update) and the Bayesian linear regressor of module.py     *)
(* (LinearRegression: forward, rls, kalman, reset).                        *)
(*                                                                         *)
(* Tensors are modelled by what the control flow can observe of them:      *)
(* their leading shape, the computation that produced each entry (a term   *)
(* naming its inputs and the parameter version it was evaluated at) and    *)
(* the set of autograd graph nodes they are attached to.  Parameters are   *)
(* modelled by their version: the number of optimizer steps applied to     *)
(* their group.                                                            *)
(***************************************************************************)
EXTENDS Integers, Sequences, FiniteSets, TLC

VARIABLES vjf, mvjf, reg, call, ncalls

vars == <<vjf, mvjf, reg, call, ncalls>>

\* ---------------------------------------------------------------- bounds
MaxCalls == 2      \* single-step calls (feed, filter of model.py, update)
MaxSeqCalls == 1   \* sequence-level calls (filter, fit) in one behaviour
MaxT     == 2      \* time steps of a sequence handed to filter / fit
MaxB     == 2      \* batch size
MaxIter  == 2      \* max_iter handed to fit
MaxStep  == 3      \* step handed to forecast
MaxRegCalls == 2   \* calls made on the regressor in one behaviour

\* ------------------------------------------------------- online.py: VJF
\* the four optimizers, in the order feed zeroes and steps them
GroupOrder == <<"decoder", "dynamics", "encoder", "noise">>
Groups == {GroupOrder[i] : i \in 1..4}
\* the three groups that own an ExponentialLR scheduler
SchedGroups == {"decoder", "encoder", "dynamics"}

Flags == [Groups -> BOOLEAN]

NoneQ == [kind |-> "none"]

\* state of the object after __init__: no optimizer or scheduler has
\* stepped, no gradient has been accumulated
VJFInit ==
  [opt   |-> [g \in Groups |-> 0],
   grad  |-> [g \in Groups |-> 0],
   sched |-> [g \in SchedGroups |-> 0],
   tick  |-> 0]

\* a run is the object state together with the trace of the collaborator
\* calls made so far in the current operation
Emit(r, kind, arg) == [r EXCEPT !.ev = Append(@, <<kind, arg>>)]

ZeroGrad(r, g) ==
  Emit([r EXCEPT !.m.grad[g] = 0], "zero_grad", g)

\* cost.backward(): every parameter group accumulates into its .grad
Backward(r) ==
  Emit([r EXCEPT !.m.grad = [g \in DOMAIN @ |-> @[g] + 1]], "backward", "-")

ClipGrad(r) == Emit(r, "clip", "-")

OptStep(r, g) ==
  Emit([r EXCEPT !.m.opt[g] = @ + 1], "step", g)

SchedStep(r, g) ==
  Emit([r EXCEPT !.m.sched[g] = @ + 1], "sched", g)

\* RBFLDS.update (model.py lines 249-251) calls self.linreg.update; the
\* regressor of module.py has the methods forward, rls, kalman and reset
\* and no update, so the call raises AttributeError and changes nothing
ClosedForm(r) ==
  [m |-> r.m, ev |-> r.ev, raised |-> TRUE, exception |-> "AttributeError"]

\* torch.zeros(batch, xdim) for mean and log variance
Zeros(batch) == [kind |-> "zeros", B |-> batch, graph |-> {}]

\* tensor.detach(): same values, attached to no graph
Detach(q) == [q EXCEPT !.graph = {}]

\* recognition.Recognizer / metric.elbo: batch sizes of observation,
\* control and incoming posterior have to agree
ShapesAgree(y, u, q) == Len(u) = Len(y) /\ q.B = Len(y)

\* self.recognizer(y, u, (mu0, logvar0)): one posterior entry per batch
\* element, a function of the inputs and of the parameters as they are at
\* the call; differentiable in its inputs and its parameters
Recognizer(y, u, q, theta, node) ==
  [kind  |-> "rec",
   B     |-> Len(y),
   y     |-> y,
   u     |-> u,
   prev  |-> Detach(q),
   theta |-> theta,
   graph |-> q.graph \cup {node}]

\* self.elbo(q0, q, obs, sample, regularize): the three loss components
Elbo(q0, q1, y, u, theta, node) ==
  [c \in 1..3 |->
     [c     |-> <<"ll_recon", "ll_dyn", "entropy">>[c],
      y     |-> y,
      theta |-> theta,
      graph |-> q0.graph \cup q1.graph \cup {node}]]

\* lines 177-196: the update phase of feed
FeedUpdateStepFirst(r, fl) ==
  LET s1 == IF fl["decoder"]  THEN OptStep(r, "decoder")   ELSE r
      s2 == IF fl["dynamics"] THEN OptStep(s1, "dynamics") ELSE s1
      s3 == IF fl["encoder"]  THEN OptStep(s2, "encoder")  ELSE s2
      s4 == IF fl["noise"]    THEN OptStep(s3, "noise")    ELSE s3
      z1 == ZeroGrad(s4, "decoder")
      z2 == ZeroGrad(z1, "dynamics")
      z3 == ZeroGrad(z2, "encoder")
      z4 == ZeroGrad(z3, "noise")
  IN  ClipGrad(Backward(z4))

FeedUpdate(r, fl) ==
  LET z1 == ZeroGrad(r, "decoder")
      z2 == ZeroGrad(z1, "dynamics")
      z3 == ZeroGrad(z2, "encoder")
      z4 == ZeroGrad(z3, "noise")
      b  == Backward(z4)
      c  == ClipGrad(b)
      s1 == IF fl["decoder"]  THEN OptStep(c, "decoder")   ELSE c
      s2 == IF fl["dynamics"] THEN OptStep(s1, "dynamics") ELSE s1
      s3 == IF fl["encoder"]  THEN OptStep(s2, "encoder")  ELSE s2
      s4 == IF fl["noise"]    THEN OptStep(s3, "noise")    ELSE s3
  IN  s4

\* line 199: the closed-form fit of the system is commented out
FeedClosedFormOn(r) == Emit(r, "closed_form", "-")

FeedClosedForm(r) == r

\* lines 163-167: the posterior the step starts from
FeedPrior(q0, batch) == IF q0.kind = "none" THEN Zeros(batch) ELSE q0

\* VJF.feed(obs, q0, decoder, encoder, dynamics, noise, sample, regularize,
\* optim) on the object state m; obs = (y, u), fl the four group flags.
\* The result carries the new object state, the trace of the call, the
\* posterior and the loss triple returned, and whether the call raised.
\* (The variant returns the posterior of the first recognizer call.)
FeedOpFirstPosterior(m, y, u, q0, fl, optim) ==
  LET tk  == m.tick + 1
      m0  == [m EXCEPT !.tick = tk]
      qin == FeedPrior(q0, Len(y))
      r0  == [m |-> m0, ev |-> <<>>]
  IN  IF ~ShapesAgree(y, u, qin)
      THEN [m |-> m0, ev |-> Emit(r0, "raise", "recognizer").ev,
            raised |-> TRUE, q0 |-> q0, q |-> NoneQ, loss |-> <<>>,
            tick |-> tk]
      ELSE
        LET r1   == Emit(r0, "recognizer", "-")
            q1   == Recognizer(y, u, qin, m0.opt, <<tk, "rec1">>)
            r2   == Emit(r1, "elbo", "-")
            loss == Elbo(qin, q1, y, u, m0.opt, <<tk, "elbo">>)
            r3   == IF optim THEN FeedUpdate(r2, fl) ELSE r2
            r4   == FeedClosedForm(r3)
        IN  [m |-> r4.m, ev |-> r4.ev, raised |-> FALSE,
             q0 |-> q0, q |-> q1, loss |-> loss, tick |-> tk]

FeedOp(m, y, u, q0, fl, optim) ==
  LET tk  == m.tick + 1
      m0  == [m EXCEPT !.tick = tk]
      qin == FeedPrior(q0, Len(y))
      r0  == [m |-> m0, ev |-> <<>>]
  IN  IF ~ShapesAgree(y, u, qin)
      THEN [m |-> m0, ev |-> Emit(r0, "raise", "recognizer").ev,
            raised |-> TRUE, q0 |-> q0, q |-> NoneQ, loss |-> <<>>,
            tick |-> tk]
      ELSE
        LET r1   == Emit(r0, "recognizer", "-")
            q1   == Recognizer(y, u, qin, m0.opt, <<tk, "rec1">>)
            r2   == Emit(r1, "elbo", "-")
            loss == Elbo(qin, q1, y, u, m0.opt, <<tk, "elbo">>)
            r3   == IF optim THEN FeedUpdate(r2, fl) ELSE r2
            r4   == FeedClosedForm(Emit(r3, "recognizer", "-"))
            q2   == Recognizer(y, u, Detach(qin), r3.m.opt, <<tk, "rec2">>)
        IN  [m |-> r4.m, ev |-> r4.ev, raised |-> FALSE,
             q0 |-> q0, q |-> q2, loss |-> loss, tick |-> tk]

\* ------------------------------------------------- online.py: VJF.filter
\* a tensor with two leading axes: its shape and, for every position, the
\* content kept there
Tensor(d0, d1, f(_)) ==
  [d0 |-> d0, d1 |-> d1, at |-> [p \in (1..d0) \X (1..d1) |-> f(p)]]

\* the caller's observation / control: the entry at position p is named
\* by p itself, in the caller's axis order
Ident(p) == p
Input(d0, d1) == Tensor(d0, d1, Ident)

\* torch.transpose(x, 1, 0)
Transpose(x) ==
  [d0 |-> x.d1, d1 |-> x.d0,
   at |-> [p \in (1..x.d1) \X (1..x.d0) |-> x.at[<<p[2], p[1]>>]]]

\* x[i]: the slice along the leading axis
Row(x, i) == [j \in 1..x.d1 |-> x.at[<<i, j>>]]

ZeroEntry == [y |-> <<0, 0>>, step |-> 0]

\* torch.zeros(ys.shape[0], ys.shape[1], xdim)
ZerosLike(x) ==
  [d0 |-> x.d0, d1 |-> x.d1,
   at |-> [p \in (1..x.d0) \X (1..x.d1) |-> ZeroEntry]]

\* mu[i, :, :], logvar[i, :, :] = q
SetRow(mu, i, q) ==
  [mu EXCEPT !.at = [p \in DOMAIN @ |->
     IF p[1] = i THEN [y |-> q.y[p[2]], step |-> i] ELSE @[p]]]

Min(a, b) == IF a < b THEN a ELSE b

\* the one element of a singleton set; { e(v) : v \in {x} } evaluates x once
\* and binds v to its value
The(S) == CHOOSE x \in S : TRUE

\* lines 126-141: iterations i..n of the loop over zip(ys, us); st holds
\* the object state, the posterior carried, the outputs filled so far and
\* the record of every feed call made
RECURSIVE FilterLoop(_, _, _, _, _, _, _)
FilterLoop(i, n, ys, us, fl, optim, st) ==
  IF i > n \/ st.raised THEN st
  ELSE The({
    IF f.raised
    THEN [st EXCEPT !.m = f.m, !.raised = TRUE,
                    !.feeds = Append(@, f), !.ev = @ \o f.ev]
    ELSE The({ FilterLoop(i + 1, n, ys, us, fl, optim, s) :
               s \in {[m      |-> f.m,
                       q0     |-> f.q,
                       mu     |-> SetRow(st.mu, i, f.q),
                       losses |-> Append(st.losses, f.loss),
                       feeds  |-> Append(st.feeds, f),
                       ev     |-> st.ev \o f.ev,
                       raised |-> FALSE]} })
    : f \in {FeedOp(st.m, Row(ys, i), Row(us, i), st.q0, fl, optim)} })

\* VJF.filter(y, u, q0, time_major, decoder, encoder, dynamics, noise,
\* sample, regularize, optim)
FilterOpTimeMajorOut(m, y, u, q0, time_major, fl, optim) ==
  LET ys == IF time_major THEN y ELSE Transpose(y)
      us == IF time_major THEN u ELSE Transpose(u)
  IN  The({ [m      |-> st.m,
             ev     |-> st.ev,
             raised |-> st.raised,
             feeds  |-> st.feeds,
             q      |-> st.q0,
             mu     |-> st.mu,
             losses |-> st.losses] :
        st \in {FilterLoop(1, Min(ys.d0, us.d0), ys, us, fl, optim,
                  [m |-> m, q0 |-> q0, mu |-> ZerosLike(ys),
                   losses |-> <<>>, feeds |-> <<>>, ev |-> <<>>,
                   raised |-> FALSE])} })

FilterOp(m, y, u, q0, time_major, fl, optim) ==
  LET ys == IF time_major THEN y ELSE Transpose(y)
      us == IF time_major THEN u ELSE Transpose(u)
  IN  The({ [m      |-> st.m,
             ev     |-> st.ev,
             raised |-> st.raised,
             feeds  |-> st.feeds,
             q      |-> st.q0,
             mu     |-> IF time_major THEN st.mu ELSE Transpose(st.mu),
             losses |-> st.losses] :
        st \in {FilterLoop(1, Min(ys.d0, us.d0), ys, us, fl, optim,
                  [m |-> m, q0 |-> q0, mu |-> ZerosLike(ys),
                   losses |-> <<>>, feeds |-> <<>>, ev |-> <<>>,
                   raised |-> FALSE])} })

\* ---------------------------------------------------- online.py: VJF.fit
\* a scalar loss: NaN or a finite value, in units of 1e-8
NaN == [nan |-> TRUE, v |-> 0]
Val(v) == [nan |-> FALSE, v |-> v]
Abs(x) == IF x < 0 THEN -x ELSE x

\* torch.isclose(a, b) with its defaults rtol = 1e-5, atol = 1e-8,
\* equal_nan = False:  |a - b| <= atol + rtol * |b|
RtolInv == 100000
Atol == 1
IsClose(a, b) ==
  /\ ~a.nan /\ ~b.nan
  /\ RtolInv * Abs(a.v - b.v) <= RtolInv * Atol + Abs(b.v)

NoFlags == [g \in Groups |-> FALSE]

\* lines 519-533: backward, clipping and the optimizer / scheduler steps
\* (the variant steps no scheduler)
FitUpdateNoSched(r, fl) ==
  LET b  == Backward(r)
      c  == ClipGrad(b)
      s1 == IF fl["decoder"]  THEN OptStep(c, "decoder")   ELSE c
      s2 == IF fl["dynamics"] THEN OptStep(s1, "dynamics") ELSE s1
      s3 == IF fl["encoder"]  THEN OptStep(s2, "encoder")  ELSE s2
      s4 == IF fl["noise"]    THEN OptStep(s3, "noise")    ELSE s3
  IN  s4

FitUpdate(r, fl) ==
  LET b  == Backward(r)
      c  == ClipGrad(b)
      s1 == IF fl["decoder"]
            THEN SchedStep(OptStep(c, "decoder"), "decoder") ELSE c
      s2 == IF fl["dynamics"]
            THEN SchedStep(OptStep(s1, "dynamics"), "dynamics") ELSE s1
      s3 == IF fl["encoder"]
            THEN SchedStep(OptStep(s2, "encoder"), "encoder") ELSE s2
      s4 == IF fl["noise"] THEN OptStep(s3, "noise") ELSE s3
  IN  s4

\* lines 497-500
FitZero(r) ==
  ZeroGrad(ZeroGrad(ZeroGrad(ZeroGrad(r, "decoder"), "dynamics"),
                    "encoder"), "noise")

\* lines 501-512: the sequence is filtered with every flag off
FitFilterOptim(m, y, u, q0, time_major) ==
  FilterOp(m, y, u, q0, time_major, [g \in Groups |-> TRUE], TRUE)

FitFilter(m, y, u, q0, time_major) ==
  FilterOp(m, y, u, q0, time_major, NoFlags, FALSE)

\* line 515: the early stop
FitConvergedEqualNan(loss, new_loss) ==
  (loss.nan /\ new_loss.nan) \/ IsClose(loss, new_loss)

FitConverged(loss, new_loss) == IsClose(loss, new_loss)

\* lines 496-535: iterations i..max_iter of the loop; L[i] is the value
\* new_loss takes in iteration i.  st: object state, loss, the trace of
\* every iteration entered, what was printed, how the loop ended.
\* Line 513 divides by T (ZeroDivisionError when y has no time step); when
\* the filter made no step elbos is empty, new_loss is the Python float
\* -0.0 and new_loss.item() (line 514) raises AttributeError
RECURSIVE FitLoop(_, _, _, _, _, _, _, _, _, _)
FitLoop(i, max_iter, y, u, q0, time_major, T, fl, L, st) ==
  IF i > max_iter
  THEN [st EXCEPT !.out = Append(@, "Maximum iteration reached."),
                  !.end = "exhausted"]
  ELSE
    The({ The({
      IF f.raised \/ T = 0 \/ Len(f.losses) = 0
      THEN [st EXCEPT !.m = f.m, !.its = Append(@, z.ev \o f.ev),
                      !.end = "raised",
                      !.exception =
                         IF f.raised THEN "filter"
                         ELSE IF T = 0 THEN "ZeroDivisionError"
                         ELSE "AttributeError"]
      ELSE IF FitConverged(st.loss, L[i])
      THEN [st EXCEPT !.m = f.m, !.its = Append(@, z.ev \o f.ev),
                      !.mu = f.mu,
                      !.out = Append(@, "Converged"),
                      !.end = "converged"]
      ELSE The({ The({
             FitLoop(i + 1, max_iter, y, u, q0, time_major, T, fl, L, s) :
             s \in {[st EXCEPT !.m = w.m, !.its = Append(@, w.ev),
                               !.mu = f.mu, !.loss = L[i]]} }) :
             w \in {FitUpdate([m |-> f.m, ev |-> z.ev \o f.ev], fl)} })
      : f \in {FitFilter(z.m, y, u, q0, time_major)} })
      : z \in {FitZero([m |-> st.m, ev |-> <<>>])} })

\* VJF.fit(y, u, q0, time_major, max_iter, decoder, encoder, dynamics,
\* noise); the final return raises UnboundLocalError when no iteration
\* bound mu
FitOp(m, y, u, q0, time_major, max_iter, fl, L) ==
  LET T == IF time_major THEN y.d0 ELSE y.d1
  IN  The({ [m      |-> st.m,
             its    |-> st.its,
             out    |-> st.out,
             end    |-> st.end,
             raised |-> st.end = "raised" \/ max_iter = 0,
             exception |-> IF st.end # "raised" /\ max_iter = 0
                           THEN "UnboundLocalError" ELSE st.exception,
             loss   |-> st.loss,
             mu     |-> st.mu] :
        st \in {FitLoop(1, max_iter, y, u, q0, time_major, T, fl, L,
                  [m |-> m, loss |-> NaN, its |-> <<>>, out |-> <<>>,
                   mu |-> NoneQ, end |-> "running",
                   exception |-> "no"])} })

\* ----------------------------------------------- online.py: VJF.forecast
\* line 554-555: x[i+1] = system(x[i], u) + randn * state_noise.std
ForecastNextFromStart(x, i, theta, eps) ==
  [from |-> x[1], dyn |-> theta["dynamics"], std |-> theta["noise"],
   eps |-> eps]

ForecastNext(x, i, theta, eps) ==
  [from |-> x[i], dyn |-> theta["dynamics"], std |-> theta["noise"],
   eps |-> eps]

\* lines 553-555: entries i+1 .. step+1 of the latent trajectory
RECURSIVE ForecastRoll(_, _, _, _, _)
ForecastRoll(i, step, x, theta, eps) ==
  IF i > step THEN x
  ELSE The({ ForecastRoll(i + 1, step, x1, theta, eps) :
             x1 \in {Append(x, ForecastNext(x, i, theta, eps[i]))} })

\* line 556: self.decoder.likelihood(self.decoder(x)), entry by entry
Decode(x, theta) ==
  [i \in 1..Len(x) |-> [rate |-> x[i], dec |-> theta["decoder"]]]

\* lines 557-559
ForecastSlice(x, inclusive) ==
  IF inclusive THEN x ELSE SubSeq(x, 2, Len(x))

\* VJF.forecast(x0, step, inclusive); eps[i] is the i-th normal draw
ForecastOp(m, x0, step, inclusive, eps) ==
  The({ [x |-> ForecastSlice(x, inclusive),
         y |-> ForecastSlice(Decode(x, m.opt), inclusive)] :
        x \in {ForecastRoll(1, step, <<[from |-> "x0", x0 |-> x0]>>,
                            m.opt, eps)} })

\* ---------------------------------------------------------- model.py: VJF
\* one Adam optimizer over all parameters; closed counts the closed-form
\* updates completed on the dynamics regressor
MVJFInit ==
  [opt |-> [g \in {"all"} |-> 0], grad |-> [g \in {"all"} |-> 0],
   closed |-> 0, tick |-> 0]

\* VJF.update line 146: self.transition.update(xs, xt)
TransitionUpdate(r) == ClosedForm(r)

\* VJF.update (lines 143-146)
MUpdateOp(mm) == TransitionUpdate([m |-> mm, ev |-> <<>>])

\* VJF.prior (lines 83-96): the learned mean / logvar tiled to the batch
Prior(batch) == [kind |-> "prior", B |-> batch, graph |-> {<<0, "param">>}]

\* line 176: the non-gradient step of filter is commented out
MFilterClosedForm(r) == r

\* lines 172-176
MFilterUpdate(r) ==
  MFilterClosedForm(OptStep(Backward(ZeroGrad(r, "all")), "all"))

\* VJF.filter(y, u, qs, update) of model.py, y a batch of observations
MFilterOp(mm, y, qs, update) ==
  LET tk  == mm.tick + 1
      m0  == [mm EXCEPT !.tick = tk]
      qin == IF qs.kind = "none" THEN Prior(Len(y)) ELSE qs
      r1  == Emit([m |-> m0, ev |-> <<>>], "forward", "-")
      qt  == [kind |-> "rec", B |-> Len(y), y |-> y, prev |-> Detach(qin),
              theta |-> m0.opt, graph |-> {<<tk, "forward">>}]
      r2  == Emit(r1, "loss", "-")
      ls  == [theta |-> m0.opt, graph |-> {<<tk, "forward">>, <<tk, "loss">>}]
      r3  == IF update THEN MFilterUpdate(r2) ELSE r2
  IN  [m |-> r3.m, ev |-> r3.ev, q0 |-> qs, q |-> qt, loss |-> ls]

\* lines 198-201: the steps t..T of one pass over the sequence
MFitFilter(mm, y, q) == MFilterOp(mm, y, q, FALSE)

RECURSIVE MFitSeq(_, _, _)
MFitSeq(t, T, st) ==
  IF t > T THEN st
  ELSE The({ The({ MFitSeq(t + 1, T, s) :
                   s \in {[m |-> f.m, q |-> f.q, ev |-> st.ev \o f.ev,
                           qseq |-> Append(st.qseq, f.q)]} })
             : f \in {MFitFilter(st.m, <<<<t, 1>>>>, st.q)} })

\* lines 190-206: iterations i..max_iter
RECURSIVE MFitLoop(_, _, _, _)
MFitLoop(i, max_iter, T, st) ==
  IF i > max_iter THEN st
  ELSE
    The({ The({ The({ The({ MFitLoop(i + 1, max_iter, T, n) :
      n \in {[m |-> w.m, its |-> Append(st.its, w.ev), qseq |-> s.qseq]} })
      : w \in {OptStep(Backward([m |-> s.m, ev |-> s.ev]), "all")} })
      : s \in {MFitSeq(1, T, [m |-> z.m, q |-> NoneQ, ev |-> z.ev,
                              qseq |-> <<>>])} })
      : z \in {ZeroGrad([m |-> st.m, ev |-> <<>>], "all")} })

\* VJF.fit(y, u=None, max_iter) of model.py on a sequence of T >= 1 steps
MFitOp(mm, T, max_iter) ==
  The({ [m |-> st.m, its |-> st.its, qseq |-> st.qseq,
         raised |-> max_iter = 0] :
        st \in {MFitLoop(1, max_iter, T,
                         [m |-> mm, its |-> <<>>, qseq |-> <<>>])} })

\* ------------------------------------------- module.py: LinearRegression
\* exact rationals <<numerator, denominator>>, denominator > 0, reduced
RECURSIVE Gcd(_, _)
Gcd(a, b) == IF b = 0 THEN a ELSE Gcd(b, a % b)

Rat(n, d) ==
  LET sn == IF d < 0 THEN -n ELSE n
      sd == IF d < 0 THEN -d ELSE d
      g  == Gcd(Abs(sn), sd)
  IN  <<sn \div g, sd \div g>>

RInt(k) == <<k, 1>>
RAdd(a, b) ==
  LET g == Gcd(a[2], b[2])
  IN  Rat(a[1] * (b[2] \div g) + b[1] * (a[2] \div g), (a[2] \div g) * b[2])
RNeg(a) == <<-a[1], a[2]>>
RSub(a, b) == RAdd(a, RNeg(b))
RMul(a, b) ==
  LET g == Gcd(Abs(a[1]), b[2])
      h == Gcd(Abs(b[1]), a[2])
  IN  Rat((a[1] \div g) * (b[1] \div h), (a[2] \div h) * (b[2] \div g))
RDiv(a, b) == RMul(a, IF b[1] < 0 THEN <<-b[2], -b[1]>> ELSE <<b[2], b[1]>>)
RPos(a) == a[1] > 0

\* matrices are sequences of rows
Rows(A) == Len(A)
Cols(A) == Len(A[1])
MT(A) == [j \in 1..Cols(A) |-> [i \in 1..Rows(A) |-> A[i][j]]]
MAdd(A, B) == [i \in 1..Rows(A) |-> [j \in 1..Cols(A) |-> RAdd(A[i][j], B[i][j])]]
MSub(A, B) == [i \in 1..Rows(A) |-> [j \in 1..Cols(A) |-> RSub(A[i][j], B[i][j])]]
MScale(c, A) == [i \in 1..Rows(A) |-> [j \in 1..Cols(A) |-> RMul(c, A[i][j])]]

RECURSIVE Dot(_, _, _, _, _)
Dot(A, B, i, j, k) ==
  IF k = 0 THEN RInt(0)
  ELSE RAdd(Dot(A, B, i, j, k - 1), RMul(A[i][k], B[k][j]))

MMul(A, B) ==
  [i \in 1..Rows(A) |-> [j \in 1..Cols(B) |-> Dot(A, B, i, j, Cols(A))]]

\* feature.n_feature and n_output of the regressor under study
NFeature == 2
NOutput == 1

\* torch.eye(n), torch.zeros(n, k)
Eye(n) == [i \in 1..n |-> [j \in 1..n |-> IF i = j THEN RInt(1) ELSE RInt(0)]]
ZeroMat(n, k) == [i \in 1..n |-> [j \in 1..k |-> RInt(0)]]

Det2(A) == RSub(RMul(A[1][1], A[2][2]), RMul(A[1][2], A[2][1]))

\* linalg.cholesky(A) succeeds: A (read as symmetric) is positive definite
PosDef(A) == RPos(A[1][1]) /\ RPos(Det2(A))

\* the inverse of a 2 x 2 matrix; cholesky followed by the triangular
\* solves computes A^-1 B from the factor L L' = A
Inv2(A) ==
  LET d == Det2(A)
  IN  << <<RDiv(A[2][2], d), RDiv(RNeg(A[1][2]), d)>>,
         <<RDiv(RNeg(A[2][1]), d), RDiv(A[1][1], d)>> >>

\* LinearRegression.__init__ (lines 42-45)
RegInit ==
  [w_mean      |-> ZeroMat(NFeature, NOutput),
   w_chol      |-> Eye(NFeature),
   w_precision |-> Eye(NFeature)]

\* lines 66-70 of rls: L = cholesky(P + 1/diffusion * I), H = L^-1 P,
\* P - H'H = P - P'(P + 1/diffusion * I)^-1 P
RlsShifted(P, diffusion) ==
  MAdd(P, MScale(RDiv(RInt(1), diffusion), Eye(Rows(P))))

RlsForget(P, diffusion) ==
  LET M == RlsShifted(P, diffusion)
  IN  MSub(P, MMul(MT(P), MMul(Inv2(M), P)))

\* 1 / diffusion with diffusion the Python float 0. raises
\* ZeroDivisionError
RlsDivides(diffusion) == diffusion[1] = 0

\* line 78 of rls: w_precision = P + scaled_feat' scaled_feat; the variant
\* accumulates only the lower triangle of the outer product
RlsPrecisionTril(P, sf) ==
  LET O == MMul(MT(sf), sf)
  IN  MAdd(P, [i \in 1..Rows(O) |->
                 [j \in 1..Cols(O) |-> IF j <= i THEN O[i][j] ELSE RInt(0)]])

RlsPrecision(P, sf) == MAdd(P, MMul(MT(sf), sf))

\* LinearRegression.rls(x, target, v, diffusion): feat = feature(x) is a
\* (1, n_feature) matrix, target a (1, n_output) matrix, s = sqrt(v).
\* The sign of diffusion is not checked: when P + 1/diffusion * I is not
\* positive definite the cholesky of line 68 raises before anything is
\* assigned; the cholesky of line 82 raises after w_precision is assigned
RlsOp(r, feat, target, s, diffusion) ==
  IF RlsDivides(diffusion)
  THEN [reg |-> r, raised |-> "ZeroDivisionError"]
  ELSE IF ~PosDef(RlsShifted(r.w_precision, diffusion))
  THEN [reg |-> r, raised |-> "LinAlgError"]
  ELSE
    LET P  == RlsForget(r.w_precision, diffusion)
        sf == MScale(RDiv(RInt(1), s), feat)
        st == MScale(RDiv(RInt(1), s), target)
        g  == MAdd(MMul(P, r.w_mean), MMul(MT(sf), st))
        W  == RlsPrecision(P, sf)
    IN  IF W # MT(W)
        THEN [reg |-> [r EXCEPT !.w_precision = W],
              raised |-> "AssertionError"]
        ELSE IF ~PosDef(W)
        THEN [reg |-> [r EXCEPT !.w_precision = W],
              raised |-> "LinAlgError"]
        ELSE [reg |-> [r EXCEPT !.w_precision = W,
                                !.w_mean = MMul(Inv2(W), g)],
              raised |-> "no"]

\* kalman.predict / kalman.update: the posterior mean and the
\* lower-triangular factor of the posterior covariance they return
Half == <<1, 2>>
KalmanMeans ==
  { ZeroMat(NFeature, NOutput),
    << <<Half>>, <<RInt(-1)>> >> }
KalmanChols ==
  { Eye(NFeature),
    << <<Half, RInt(0)>>, <<RInt(0), Half>> >>,
    << <<RInt(1), RInt(0)>>, <<Half, Half>> >> }

\* LinearRegression.kalman(x, target, v, diffusion) with the result
\* (mean, chol) of kalman.update (the variant also stores the precision
\* that goes with the new factor)
KalmanOpWithPrecision(r, diffusion, mean, chol) ==
  IF diffusion[1] < 0
  THEN [reg |-> r, raised |-> "AssertionError"]
  ELSE [reg |-> [r EXCEPT !.w_mean = mean, !.w_chol = chol,
                          !.w_precision = Inv2(MMul(chol, MT(chol)))],
        raised |-> "no"]

KalmanOp(r, diffusion, mean, chol) ==
  IF diffusion[1] < 0
  THEN [reg |-> r, raised |-> "AssertionError"]
  ELSE [reg |-> [r EXCEPT !.w_mean = mean, !.w_chol = chol],
        raised |-> "no"]

\* LinearRegression.forward(x, sampling): feat = feature(x), noise the
\* draw of torch.randn_like(w)
RegForwardSamples(r, feat, sampling, noise) ==
  [reg |-> r, out |-> MMul(feat, MAdd(r.w_mean, MMul(r.w_chol, noise)))]

RegForwardOp(r, feat, sampling, noise) ==
  LET w == IF sampling THEN MAdd(r.w_mean, MMul(r.w_chol, noise))
           ELSE r.w_mean
  IN  [reg |-> r, out |-> MMul(feat, w)]

\* RBFLDS.forward(x, u, sampling) (model.py lines 228-236): x plus the
\* regressor evaluated at xu; feat = feature(xu)
RbfldsForwardOp(r, x, feat, sampling, noise) ==
  LET f == RegForwardOp(r, feat, sampling, noise)
  IN  [reg |-> f.reg, out |-> MAdd(x, f.out)]

\* LinearRegression.reset (lines 115-119)
ResetMeanOnly(r) ==
  [r EXCEPT !.w_mean = ZeroMat(Rows(@), Cols(@))]

ResetOp(r) ==
  [r EXCEPT !.w_mean = ZeroMat(Rows(@), Cols(@)),
            !.w_chol = Eye(NFeature)]

\* ================================================================ actions
AllFlags == [g \in Groups |-> TRUE]
\* the defaults of fit: noise = False
FitDefault == [g \in Groups |-> g # "noise"]
NoiseOnly == [g \in Groups |-> g = "noise"]
DynamicsOnly == [g \in Groups |-> g = "dynamics"]
FlagChoices == {AllFlags, NoFlags, FitDefault, NoiseOnly, DynamicsOnly}

\* a posterior handed in by the caller
Given(b) == [kind |-> "given", B |-> b, graph |-> {}]

\* the posterior returned by the previous call, when there is one
LastQ(ops) ==
  IF call.op \in ops /\ call.q.kind = "rec" THEN {call.q} ELSE {}

Q0Choices ==
  {NoneQ} \cup {Given(b) : b \in 1..MaxB} \cup LastQ({"feed", "filter"})

LossVals == {NaN, Val(0), Val(1), Val(3)}
EpsVals == {-1, 0, 1}

Init ==
  /\ vjf = VJFInit
  /\ mvjf = MVJFInit
  /\ reg = RegInit
  /\ call = [op |-> "init"]
  /\ ncalls = 0

Feed ==
  /\ ncalls < MaxCalls
  /\ \E yB \in 1..MaxB, uB \in 1..MaxB, q0 \in Q0Choices, fl \in Flags,
        optim \in BOOLEAN :
       \E f \in {FeedOp(vjf, Row(Input(1, yB), 1), Row(Input(1, uB), 1),
                       q0, fl, optim)} :
           /\ vjf' = f.m
           /\ call' = [op |-> "feed", pre |-> vjf, fl |-> fl,
                       optim |-> optim, ev |-> f.ev, raised |-> f.raised,
                       q0 |-> f.q0, q |-> f.q, loss |-> f.loss,
                       tick |-> f.tick]
  /\ ncalls' = ncalls + 1
  /\ UNCHANGED <<mvjf, reg>>

\* the keyword default of noise in the signature of filter (line 93)
FilterNoiseDefault == TRUE

\* the flags in effect in a call of filter that passes the flags given and
\* leaves noise to its default unless noise_passed
FilterFlags(given, noise_passed) ==
  IF noise_passed THEN given
  ELSE [given EXCEPT !["noise"] = FilterNoiseDefault]

Filter ==
  /\ ncalls < MaxSeqCalls
  /\ \E Ty \in 0..MaxT, Tu \in 0..MaxT, yB \in 1..MaxB, uB \in 1..MaxB,
        q0 \in Q0Choices, tm \in BOOLEAN, given \in FlagChoices,
        noise_passed \in BOOLEAN, optim \in BOOLEAN :
       LET y == IF tm THEN Input(Ty, yB) ELSE Input(yB, Ty)
           u == IF tm THEN Input(Tu, uB) ELSE Input(uB, Tu)
           fl == FilterFlags(given, noise_passed)
       IN  \E f \in {FilterOp(vjf, y, u, q0, tm, fl, optim)} :
           /\ vjf' = f.m
           /\ call' = [op |-> "filter", pre |-> vjf, y |-> y, u |-> u,
                       Ty |-> Ty, Tu |-> Tu, yB |-> yB, uB |-> uB,
                       time_major |-> tm, fl |-> fl,
                       noise_passed |-> noise_passed, optim |-> optim,
                       q0 |-> q0, ev |-> f.ev, raised |-> f.raised,
                       feeds |-> f.feeds, q |-> f.q, mu |-> f.mu,
                       losses |-> f.losses]
  /\ ncalls' = ncalls + 1
  /\ UNCHANGED <<mvjf, reg>>

Fit ==
  /\ ncalls < MaxSeqCalls
  /\ \E T \in 0..MaxT, tm \in BOOLEAN,
        max_iter \in 0..MaxIter, fl \in FlagChoices :
     \E Tu \in {0, T}, L \in [1..max_iter -> LossVals] :
       LET y == IF tm THEN Input(T, 1) ELSE Input(1, T)
           u == IF tm THEN Input(Tu, 1) ELSE Input(1, Tu)
       IN  \E f \in {FitOp(vjf, y, u, NoneQ, tm, max_iter, fl, L)} :
           /\ vjf' = f.m
           /\ call' = [op |-> "fit", pre |-> vjf, T |-> T, Tu |-> Tu,
                       time_major |-> tm, max_iter |-> max_iter,
                       fl |-> fl, L |-> L, its |-> f.its, out |-> f.out,
                       end |-> f.end, raised |-> f.raised,
                       exception |-> f.exception,
                       loss |-> f.loss, mu |-> f.mu]
  /\ ncalls' = ncalls + 1
  /\ UNCHANGED <<mvjf, reg>>

Forecast ==
  /\ ncalls < MaxCalls
  /\ \E x0 \in {"a", "b"}, step \in 0..MaxStep, inclusive \in BOOLEAN :
     \E eps \in [1..step -> EpsVals] :
       \E f \in {ForecastOp(vjf, x0, step, inclusive, eps)} :
           call' = [op |-> "forecast", x0 |-> x0, step |-> step,
                    inclusive |-> inclusive, eps |-> eps,
                    x |-> f.x, y |-> f.y]
  /\ ncalls' = ncalls + 1
  /\ UNCHANGED <<vjf, mvjf, reg>>

MFilter ==
  /\ ncalls < MaxCalls
  /\ \E yB \in 1..MaxB, qs \in {NoneQ} \cup LastQ({"mfilter"}), update \in BOOLEAN :
       \E f \in {MFilterOp(mvjf, Row(Input(1, yB), 1), qs, update)} :
           /\ mvjf' = f.m
           /\ call' = [op |-> "mfilter", pre |-> mvjf, update |-> update,
                       ev |-> f.ev, q0 |-> f.q0, q |-> f.q,
                       loss |-> f.loss]
  /\ ncalls' = ncalls + 1
  /\ UNCHANGED <<vjf, reg>>

MUpdate ==
  /\ ncalls < MaxCalls
  /\ \E f \in {MUpdateOp(mvjf)} :
         /\ mvjf' = f.m
         /\ call' = [op |-> "mupdate", pre |-> mvjf, ev |-> f.ev,
                     raised |-> f.raised, exception |-> f.exception]
  /\ ncalls' = ncalls + 1
  /\ UNCHANGED <<vjf, reg>>

MFit ==
  /\ ncalls < MaxSeqCalls
  /\ \E T \in 1..MaxT, max_iter \in 0..MaxIter :
       \E f \in {MFitOp(mvjf, T, max_iter)} :
           /\ mvjf' = f.m
           /\ call' = [op |-> "mfit", pre |-> mvjf, T |-> T,
                       max_iter |-> max_iter, its |-> f.its,
                       qseq |-> f.qseq, raised |-> f.raised]
  /\ ncalls' = ncalls + 1
  /\ UNCHANGED <<vjf, reg>>

FeatVals == { << <<a, b>> >> : a \in {Half, RInt(1)}, b \in {Half, RInt(1)} }
TargetVals == { << <<RInt(t)>> >> : t \in {-1, 1} }
NoiseVals == { << <<RInt(1)>>, <<RInt(b)>> >> : b \in {-1, 0} }

Rls ==
  /\ ncalls < MaxRegCalls
  /\ \E feat \in FeatVals, target \in TargetVals, s \in {RInt(1), RInt(2)},
        diffusion \in {RInt(-1), RInt(0), RInt(1)} :
       \E f \in {RlsOp(reg, feat, target, s, diffusion)} :
           /\ reg' = f.reg
           /\ call' = [op |-> "rls", pre |-> reg, feat |-> feat,
                       target |-> target, s |-> s,
                       diffusion |-> diffusion, raised |-> f.raised]
  /\ ncalls' = ncalls + 1
  /\ UNCHANGED <<vjf, mvjf>>

Kalman ==
  /\ ncalls < MaxRegCalls
  /\ \E diffusion \in {RInt(-1), RInt(0), RInt(1)}, mean \in KalmanMeans,
        chol \in KalmanChols :
       \E f \in {KalmanOp(reg, diffusion, mean, chol)} :
           /\ reg' = f.reg
           /\ call' = [op |-> "kalman", pre |-> reg,
                       diffusion |-> diffusion, raised |-> f.raised]
  /\ ncalls' = ncalls + 1
  /\ UNCHANGED <<vjf, mvjf>>

RegForward ==
  /\ ncalls < MaxRegCalls
  /\ \E feat \in FeatVals, sampling \in BOOLEAN, noise \in NoiseVals :
       \E f \in {RegForwardOp(reg, feat, sampling, noise)} :
           /\ reg' = f.reg
           /\ call' = [op |-> "forward", pre |-> reg, feat |-> feat,
                       sampling |-> sampling,
                       noise |-> IF sampling THEN noise ELSE <<>>,
                       out |-> f.out]
  /\ ncalls' = ncalls + 1
  /\ UNCHANGED <<vjf, mvjf>>

StateVals == { << <<RInt(a)>> >> : a \in {0, 1} }

DynForward ==
  /\ ncalls < MaxRegCalls
  /\ \E x \in StateVals, feat \in FeatVals, sampling \in BOOLEAN,
        noise \in NoiseVals :
       \E f \in {RbfldsForwardOp(reg, x, feat, sampling, noise)} :
           /\ reg' = f.reg
           /\ call' = [op |-> "dynforward", pre |-> reg, x |-> x,
                       feat |-> feat, sampling |-> sampling,
                       noise |-> IF sampling THEN noise ELSE <<>>,
                       out |-> f.out]
  /\ ncalls' = ncalls + 1
  /\ UNCHANGED <<vjf, mvjf>>

Reset ==
  /\ ncalls < MaxRegCalls + 1
  /\ call.op # "reset"
  /\ reg' = ResetOp(reg)
  /\ call' = [op |-> "reset", pre |-> reg]
  /\ ncalls' = ncalls + 1
  /\ UNCHANGED <<vjf, mvjf>>

\* single filtering steps
NextStep == Feed \/ MFilter \/ MUpdate
SpecStep == Init /\ [][NextStep]_vars

\* filtering of a sequence
NextFilter == Filter
SpecFilter == Init /\ [][NextFilter]_vars

\* sequence-level training
NextFit == Fit \/ MFit
SpecFit == Init /\ [][NextFit]_vars

NextForecast == Forecast
SpecForecast == Init /\ [][NextForecast]_vars

\* the regressor
NextReg == Rls \/ Kalman \/ RegForward \/ DynForward \/ Reset
SpecReg == Init /\ [][NextReg]_vars

Next == NextStep \/ NextFilter \/ NextFit \/ NextForecast
Spec == Init /\ [][Next]_vars

\* ================================================================= claims
\* positions of the events of one kind in a trace
At(ev, kind) == {i \in 1..Len(ev) : ev[i][1] = kind}
AtG(ev, kind, g) == {i \in 1..Len(ev) : ev[i] = <<kind, g>>}
Before(I, J) == \A i \in I, j \in J : i < j

\* C1: a feed call with optim=True zeroes the gradients of all four
\* groups, then backpropagates, then clips, then steps; a group is stepped
\* in the call iff optim and its flag are True; with optim=False nothing
\* is zeroed, backpropagated or stepped.
C1_FeedUpdateOrder ==
  (call.op = "feed" /\ ~call.raised) =>
    LET ev == call.ev
        Z  == At(ev, "zero_grad")
        B  == At(ev, "backward")
        C  == At(ev, "clip")
        S  == At(ev, "step")
    IN  /\ \A g \in Groups :
             /\ (AtG(ev, "step", g) # {}) <=> (call.optim /\ call.fl[g])
             /\ vjf.opt[g] = call.pre.opt[g]
                  + (IF call.optim /\ call.fl[g] THEN 1 ELSE 0)
        /\ IF call.optim
           THEN /\ \A g \in Groups : Cardinality(AtG(ev, "zero_grad", g)) = 1
                /\ Cardinality(Z) = 4
                /\ Cardinality(B) = 1
                /\ Cardinality(C) = 1
                /\ Before(Z, B) /\ Before(B, C) /\ Before(C, S)
           ELSE /\ Z = {} /\ B = {} /\ S = {}
                /\ vjf.grad = call.pre.grad

C1_Witness ==
  /\ call.op = "feed" /\ ~call.raised /\ call.optim
  /\ call.fl["decoder"] /\ ~call.fl["noise"]
  /\ vjf.opt["decoder"] = 2 /\ vjf.opt["noise"] = 0

\* C2: a filter call on y and u with T time steps each calls feed T times
\* in time order, hands step i+1 the posterior returned by step i (the
\* caller's q0 only to step 0), and returns T posterior entries and T loss
\* triples in the axis order of the input.
C2_FilterChain ==
  (call.op = "filter" /\ call.Ty = call.Tu /\ ~call.raised) =>
    LET T  == call.Ty
        fs == call.feeds
        tm == call.time_major
    IN  /\ Len(fs) = T
        /\ \A i \in 1..T :
             /\ fs[i].tick = call.pre.tick + i
             /\ fs[i].q.y = [b \in 1..call.yB |->
                               IF tm THEN <<i, b>> ELSE <<b, i>>]
             /\ fs[i].q0 = IF i = 1 THEN call.q0 ELSE fs[i - 1].q
        /\ Len(call.losses) = T
        /\ \A i \in 1..T : /\ call.losses[i] = fs[i].loss
                           /\ Len(call.losses[i]) = 3
        /\ call.mu.d0 = call.y.d0 /\ call.mu.d1 = call.y.d1
        /\ \A p \in DOMAIN call.mu.at :
             /\ call.mu.at[p].y = p
             /\ call.mu.at[p].step = IF tm THEN p[1] ELSE p[2]
        /\ Cardinality({call.mu.at[p].step : p \in DOMAIN call.mu.at}) = T

C2_Witness ==
  /\ call.op = "filter" /\ ~call.raised
  /\ call.Ty = 2 /\ call.Tu = 2 /\ call.yB = 2
  /\ ~call.time_major /\ call.q0.kind = "given"
  /\ Len(call.feeds) = 2

\* C3: fit runs at most max_iter iterations; it stops exactly at the first
\* iteration whose loss is close to the loss of the iteration before; it
\* reports 'Maximum iteration reached.' iff all max_iter iterations ran
\* without the early stop, and never reports both.
C3_FitTermination ==
  (call.op = "fit") =>
    LET n    == call.max_iter
        L    == call.L
        Stop == {i \in 2..n : IsClose(L[i - 1], L[i])}
        k    == Len(call.its)
        conv == \E j \in 1..Len(call.out) : call.out[j] = "Converged"
        maxi == \E j \in 1..Len(call.out) :
                   call.out[j] = "Maximum iteration reached."
    IN  /\ k <= n
        /\ ~(conv /\ maxi)
        /\ Len(call.out) <= 1
        /\ IF Min(call.T, call.Tu) = 0 /\ n > 0
           THEN call.end = "raised" /\ ~conv /\ ~maxi /\ k = 1
           ELSE /\ conv <=> Stop # {}
                /\ conv => (k \in Stop /\ \A i \in Stop : k <= i)
                /\ maxi <=> (k = n /\ Stop = {})

C3_Witness ==
  /\ call.op = "fit" /\ call.end = "converged"
  /\ call.max_iter = 2 /\ Len(call.its) = 2

\* the events of a trace that belong to filtering the sequence
Filtering == {"recognizer", "elbo", "forward", "loss"}
\* the events that change parameters
Updating == {"step", "sched", "closed_form"}

\* one outer iteration of a sequence-level fit over the groups G: the
\* gradients are zeroed once, first; nothing is backpropagated or updated
\* while the steps are filtered; one backward pass at most, and after it
\* one optimizer step per group at most
FitIteration(ev, G, last) ==
  /\ \A g \in G : AtG(ev, "zero_grad", g) \subseteq 1..Cardinality(G)
                  /\ Cardinality(AtG(ev, "zero_grad", g)) = 1
  /\ Before(At(ev, "zero_grad"), At(ev, "backward"))
  /\ \A k \in Filtering, w \in Updating \cup {"backward"} :
        Before(At(ev, k), At(ev, w))
  /\ Cardinality(At(ev, "backward")) = (IF last THEN 0 ELSE 1)
  /\ \A g \in G : /\ Cardinality(AtG(ev, "step", g)) <= 1
                  /\ Before(At(ev, "backward"), AtG(ev, "step", g))
                  /\ AtG(ev, "step", g) # {} => At(ev, "backward") # {}

\* C4: in a sequence-level fit (online.py and model.py) every outer
\* iteration filters the sequence without updating parameters, zeroes the
\* gradients once at its start, backpropagates the combined loss once and
\* steps each group at most once; a group is stepped at most max_iter
\* times per call.
C4_FitOneStepPerIteration ==
  /\ (call.op = "fit") =>
       /\ \A i \in 1..Len(call.its) :
            FitIteration(call.its[i], Groups,
                         i = Len(call.its)
                           /\ call.end \in {"converged", "raised"})
       /\ \A g \in Groups :
            /\ vjf.opt[g] - call.pre.opt[g] <= call.max_iter
            /\ vjf.opt[g] - call.pre.opt[g]
                 = Cardinality({i \in 1..Len(call.its) :
                                  AtG(call.its[i], "step", g) # {}})
  /\ (call.op = "mfit") =>
       /\ \A i \in 1..Len(call.its) :
            FitIteration(call.its[i], {"all"}, FALSE)
       /\ mvjf.opt["all"] - call.pre.opt["all"] <= call.max_iter
       /\ mvjf.opt["all"] - call.pre.opt["all"]
            = Cardinality({i \in 1..Len(call.its) :
                             AtG(call.its[i], "step", "all") # {}})

C4_Witness ==
  /\ call.op = "fit" /\ call.T = 2 /\ call.max_iter = 2
  /\ Len(call.its) = 2 /\ call.end = "exhausted"
  /\ call.fl = AllFlags
  /\ vjf.opt["dynamics"] = 2

\* C5: the loss backpropagated by a feed call depends on no computation
\* of an earlier step: the incoming posterior is a constant for it.
C5_PrevPosteriorConstant ==
  (call.op = "feed" /\ ~call.raised /\ call.optim) =>
    \A c \in 1..3 : \A n \in call.loss[c].graph : n[1] = call.tick

\* C6: forecast(x0, step, inclusive=True) returns step+1 latent and step+1
\* observation entries, the first latent being x0 and entry i+1 computed
\* from entry i alone; with inclusive=False it returns the step entries
\* 1..step of the inclusive result for the same draws.
C6_ForecastTrajectory ==
  (call.op = "forecast") =>
    LET n   == call.step
        inc == ForecastOp(vjf, call.x0, n, TRUE, call.eps)
    IN  IF call.inclusive
        THEN /\ Len(call.x) = n + 1 /\ Len(call.y) = n + 1
             /\ call.x[1] = [from |-> "x0", x0 |-> call.x0]
             /\ \A i \in 1..n : /\ call.x[i + 1].from = call.x[i]
                                /\ call.x[i + 1].eps = call.eps[i]
             /\ \A i \in 1..(n + 1) : call.y[i].rate = call.x[i]
        ELSE /\ Len(call.x) = n /\ Len(call.y) = n
             /\ \A i \in 1..n : /\ call.x[i] = inc.x[i + 1]
                                /\ call.y[i] = inc.y[i + 1]
             /\ \A i \in 1..n : call.x[i].eps = call.eps[i]
             /\ \A i \in 2..n : call.x[i].from = call.x[i - 1]
             /\ n >= 1 => call.x[1].from = [from |-> "x0", x0 |-> call.x0]

C6_Witness ==
  /\ call.op = "forecast" /\ call.step = 3 /\ ~call.inclusive
  /\ Len(call.x) = 3 /\ call.eps = <<1, 0, -1>>

\* C7: a filter call whose y, u and q0 disagree in batch size raises, and
\* no optimizer step has been executed in the call when it does.
BatchMismatch ==
  \/ call.yB # call.uB
  \/ call.q0.kind # "none" /\ call.q0.B # call.yB

C7_FilterShapeMismatchRaises ==
  (call.op = "filter" /\ BatchMismatch) =>
    /\ call.raised
    /\ vjf.opt = call.pre.opt
    /\ At(call.ev, "step") = {}

\* C8: rls with diffusion 0 does not raise and is the non-forgetting
\* update: the precision only gains the scaled feature outer product.
C8_RlsZeroDiffusion ==
  (call.op = "rls" /\ call.diffusion = RInt(0)) =>
    LET sf == MScale(RDiv(RInt(1), call.s), call.feat)
    IN  /\ call.raised = "no"
        /\ reg.w_precision = MAdd(call.pre.w_precision, MMul(MT(sf), sf))

\* C9: no filtering step (feed of online.py, filter of model.py) both
\* steps the dynamics parameters by gradient and updates the dynamics
\* regressor in closed form.
C9_ClosedFormExcludesGradient ==
  /\ (call.op = "feed") =>
       ~(At(call.ev, "closed_form") # {}
           /\ AtG(call.ev, "step", "dynamics") # {})
  /\ (call.op = "mfilter") =>
       /\ ~(At(call.ev, "closed_form") # {}
              /\ AtG(call.ev, "step", "all") # {})
       /\ mvjf.closed = call.pre.closed

C9_Witness ==
  /\ call.op = "feed" /\ ~call.raised /\ call.optim
  /\ call.fl = AllFlags /\ call.q0.kind = "rec"
  /\ AtG(call.ev, "step", "dynamics") # {}
  /\ At(call.ev, "closed_form") = {}

\* C10: after reset, whatever calls came before, w_mean is all zeros and
\* w_chol the identity, with the shapes they had at construction.
C10_ResetRestores ==
  (call.op = "reset") =>
    /\ reg.w_mean = ZeroMat(NFeature, NOutput)
    /\ reg.w_chol = Eye(NFeature)
    /\ reg.w_mean = RegInit.w_mean /\ reg.w_chol = RegInit.w_chol

C10_Witness ==
  /\ call.op = "reset"
  /\ call.pre.w_mean # ZeroMat(NFeature, NOutput)
  /\ call.pre.w_chol # Eye(NFeature)
  /\ call.pre.w_precision # Eye(NFeature)

\* C11: starting from the constructed regressor, w_precision equals its
\* own transpose after every rls update, and no rls call ends in the
\* symmetry assertion of line 79 (a call that does not raise has a nonzero
\* diffusion).
C11_PrecisionSymmetric ==
  /\ reg.w_precision = MT(reg.w_precision)
  /\ call.op = "rls" =>
       /\ call.raised # "AssertionError"
       /\ call.raised = "no" => ~RlsDivides(call.diffusion)

\* a second successful rls update of a precision that is no longer the
\* identity
C11_Witness ==
  /\ call.op = "rls"
  /\ call.raised = "no"
  /\ call.pre.w_precision # Eye(NFeature)
  /\ RPos(reg.w_precision[1][2])

\* C12: a filtering step that is given no previous posterior starts from
\* the prior built from the learned mean and logvar of the model, tiled to
\* the batch size of y, in model.py VJF.filter and in online.py VJF.feed
\* alike.
C12_StartsFromPrior ==
  (/\ call.op \in {"feed", "mfilter"}
   /\ call.q0.kind = "none"
   /\ call.q.kind = "rec") =>
     /\ call.q.prev.kind = "prior"
     /\ call.q.prev.B = call.q.B

\* C13: the noise flag of online.py VJF.filter defaults to False: a call
\* of filter that does not pass noise never steps the state-noise
\* optimizer, in any of its time steps.
C13_FilterNoiseDefaultOff ==
  (call.op = "filter" /\ ~call.noise_passed) =>
    /\ AtG(call.ev, "step", "noise") = {}
    /\ vjf.opt["noise"] = call.pre.opt["noise"]

\* C14: the dynamics forward pass in non-sampling mode (RBFLDS.forward
\* with sampling=False, through LinearRegression.forward) draws no noise
\* and leaves the regressor posterior as it was: its output is x plus
\* feat times w_mean, whatever a noise draw would have been, so two runs
\* on the same input from the same state return the same output.
C14_ForwardDeterministic ==
  /\ (call.op = "dynforward" /\ ~call.sampling) =>
       /\ reg = call.pre
       /\ call.out = MAdd(call.x, MMul(call.feat, call.pre.w_mean))
       /\ \A n \in NoiseVals :
            RbfldsForwardOp(reg, call.x, call.feat, FALSE, n).out = call.out
  /\ (call.op = "forward" /\ ~call.sampling) =>
       /\ reg = call.pre
       /\ call.out = MMul(call.feat, call.pre.w_mean)
       /\ \A n \in NoiseVals :
            RegForwardOp(reg, call.feat, FALSE, n).out = call.out

\* a non-sampling dynamics forward pass on a regressor whose mean and
\* factor are no longer the constructed ones
C14_Witness ==
  /\ call.op = "dynforward"
  /\ ~call.sampling
  /\ call.pre.w_mean # ZeroMat(NFeature, NOutput)
  /\ call.pre.w_chol # Eye(NFeature)
  /\ call.out # call.x

\* C15: in a feed call with optim=True the three loss components are
\* computed from the parameters as they are before the optimizer steps,
\* and the posterior returned is computed by the recognizer after those
\* steps, from the detached incoming posterior; loss and posterior are
\* evaluated at different parameter values whenever a group is stepped.
C15_LossBeforePosteriorAfter ==
  (call.op = "feed" /\ ~call.raised /\ call.optim) =>
    /\ \A c \in 1..3 : call.loss[c].theta = call.pre.opt
    /\ Before(At(call.ev, "elbo"), At(call.ev, "step"))
    /\ \E i \in At(call.ev, "recognizer") : Before(At(call.ev, "step"), {i})
    /\ call.q.theta = vjf.opt
    /\ call.q.graph = {<<call.tick, "rec2">>}
    /\ call.q.prev = Detach(FeedPrior(call.q0, call.q.B))
    /\ (\E g \in Groups : call.fl[g]) =>
         \A c \in 1..3 : call.loss[c].theta # call.q.theta

\* a feed call chained on the posterior of the call before it, stepping
\* the encoder only
C15_Witness ==
  /\ call.op = "feed"
  /\ ~call.raised
  /\ call.optim
  /\ call.q0.kind = "rec"
  /\ call.q0.graph # {}
  /\ call.fl = [g \in Groups |-> g = "encoder"]
  /\ call.q.theta["encoder"] = call.loss[1].theta["encoder"] + 1

\* C16: in online fit the iteration that triggers the early stop does no
\* backward pass, no optimizer step and no scheduler step, and the loss
\* returned is that of the iteration before it; in every iteration the
\* scheduler of each of decoder, dynamics and encoder is stepped exactly
\* when, and right after, its optimizer is stepped (the noise group has no
\* scheduler), so over the call each of these groups has as many scheduler
\* steps as optimizer steps.
C16_FitEarlyStopAndSchedulers ==
  (call.op = "fit") =>
    /\ call.end = "converged" =>
         LET k == Len(call.its)
         IN  /\ k >= 2
             /\ At(call.its[k], "backward") = {}
             /\ At(call.its[k], "step") = {}
             /\ At(call.its[k], "sched") = {}
             /\ call.loss = call.L[k - 1]
             /\ \A g \in Groups : vjf.opt[g] - call.pre.opt[g] <= k - 1
    /\ \A i \in 1..Len(call.its) :
         /\ \A g \in SchedGroups :
              /\ Cardinality(AtG(call.its[i], "sched", g))
                   = Cardinality(AtG(call.its[i], "step", g))
              /\ \A p \in AtG(call.its[i], "step", g) :
                   /\ p < Len(call.its[i])
                   /\ call.its[i][p + 1] = <<"sched", g>>
         /\ \A g \in Groups \ SchedGroups : AtG(call.its[i], "sched", g) = {}
    /\ \A g \in SchedGroups :
         vjf.sched[g] - call.pre.sched[g] = vjf.opt[g] - call.pre.opt[g]

\* a fit that stops early in its second iteration, after one update of
\* all four groups
C16_Witness ==
  /\ call.op = "fit"
  /\ call.end = "converged"
  /\ Len(call.its) = 2
  /\ call.fl = AllFlags
  /\ call.loss = call.L[1]
  /\ vjf.sched["encoder"] = call.pre.sched["encoder"] + 1
  /\ vjf.opt["noise"] = call.pre.opt["noise"] + 1

\* C17: w_precision is assigned by rls only: kalman, reset and the forward
\* passes leave it as it was; w_chol is assigned by kalman and reset only:
\* rls and the forward passes leave it as it was.  In particular reset
\* does not bring w_precision back to the identity.
C17_RegressorFrame ==
  /\ call.op \in {"kalman", "reset", "forward", "dynforward"} =>
       reg.w_precision = call.pre.w_precision
  /\ call.op \in {"rls", "forward", "dynforward"} =>
       reg.w_chol = call.pre.w_chol
  /\ (call.op = "reset" /\ call.pre.w_precision # Eye(NFeature)) =>
       reg.w_precision # Eye(NFeature)

\* a reset after an rls update and a kalman update: the factor is the
\* identity again, the precision is still the one rls left
C17_Witness ==
  /\ call.op = "reset"
  /\ call.pre.w_chol # Eye(NFeature)
  /\ reg.w_chol = Eye(NFeature)
  /\ reg.w_precision # Eye(NFeature)

====
